---- MODULE Spec2Model ----
(***************************************************************************)
(* Model of the ImageUploader component of src/app/page.tsx: the React     *)
(* state of the component, the form value cover_image, the shared hidden   *)
(* canvas, the pending FileReader of onDrop and the pipeline runs started  *)
(* by the 'Apply Crop and Compress' button (crop -> compress -> resize ->  *)
(* publish), one action per event handler or asynchronous completion.      *)
(*                                                                         *)
(* Numbers that JavaScript computes in floating point (the letterbox       *)
(* arithmetic of resizeImage) are modelled as exact fractions [n, d].     *)
(***************************************************************************)
EXTENDS Integers, FiniteSets, Sequences, TLC

VARIABLES
  originalPreview,    \* useState: data URL of the selected file, or Empty
  compressedPreview,  \* useState: data URL of the processed file, or Empty
  originalSize,       \* useState: byte size of the selected file, or Empty
  compressedSize,     \* useState: byte size of the processed file, or Empty
  targetWidth,        \* useState(600)
  targetHeight,       \* useState(400)
  completedCrop,      \* useState<Crop | null>(null)
  cover_image,        \* the form value 'cover_image'
  canvas,             \* the hidden <canvas ref={canvasRef}> shared by all runs
  reads,              \* files whose onDrop FileReader has not signalled yet
  runs,               \* the invocations of processImage in flight, by slot
  outcome,            \* how the invocation that ended last ended: "returned",
                      \* "done", "unread" or the error its catch block logged
  failedSinceSelect,  \* a run has failed, and since then no file was selected
                      \* and no selected file finished loading
  events,             \* user events so far, clicks included
  clicks              \* clicks of 'Apply Crop and Compress' so far

vars == <<originalPreview, compressedPreview, originalSize, compressedSize,
          targetWidth, targetHeight, completedCrop, cover_image, canvas,
          reads, runs, outcome, failedSinceSelect,
          events, clicks>>

(***************************************************************************)
(* Bounds of the model and input samples                                   *)
(***************************************************************************)
MaxRuns == 2     \* processImage invocations that can be in flight together
MaxEvents == 5   \* user events (selections, edits, crops, clicks) in a session
MaxSide == 4     \* largest side in the letterbox arithmetic taken alone

Slots == 1..MaxRuns
InitialWidth == 600              \* useState(600)
InitialHeight == 400             \* useState(400)
DefaultCanvasWidth == 300        \* a <canvas> without attributes is 300 x 150
DefaultCanvasHeight == 150

\* Number(e.target.value) of the width / height inputs: "" and "0" give 0
TargetVals == {0, 1}

\* width x height of the image the compress stage hands to resizeImage
Images == {<<2, 1>>, <<1, 2>>}

\* side of a completed crop; a click without a drag completes a 0 x 0 crop
CropVals == {0, 1}

Sides == 1..MaxSide

FileNames == {"a.png", "b.jpg"}

(***************************************************************************)
(* Values.  Every nullable value is a record with a "kind" field, so that  *)
(* null / undefined is a value of the same shape as the others.            *)
(***************************************************************************)
\* null / undefined where a File or a data URL is expected
Empty == [kind |-> "empty", name |-> "", w |-> 0, h |-> 0]

\* null where a number is expected (originalSize, compressedSize)
NoSize == -1

\* useState<Crop | null>(null)
NullCrop == [unit |-> "null", width |-> 0, height |-> 0]

\* a Blob holding a JPEG of w x h pixels, and the null that toBlob passes
JpegBlob(w, h) == [kind |-> "jpeg", w |-> w, h |-> h]
NullBlob == [kind |-> "null", w |-> 0, h |-> 0]

\* A file picked by the user.
UserFile(n) == [kind |-> "original", name |-> n, w |-> 0, h |-> 0]

\* new File([blob], fileName, {type: 'image/jpeg'}).  A null blob part is
\* converted to the string "null": the file then holds those four bytes.
NewFile(blob, n) ==
  IF blob.kind = "null"
    THEN [kind |-> "nulltext", name |-> n, w |-> 0, h |-> 0]
    ELSE [kind |-> "jpeg", name |-> n, w |-> blob.w, h |-> blob.h]

\* reader.readAsDataURL(file); reader.result
DataURL(f) == [kind |-> "url:" \o f.kind, name |-> f.name, w |-> f.w, h |-> f.h]

\* file.size
FileSize(f) ==
  CASE f.kind = "original" -> IF f.name = "a.png" THEN 900 ELSE 700
    [] f.kind = "nulltext" -> 4
    [] OTHER               -> 10 + f.w * f.h

(***************************************************************************)
(* JavaScript numbers of resizeImage, as fractions [n, d] with d >= 0:     *)
(* d = 0 stands for the results of a division by zero, Infinity (n > 0)    *)
(* and NaN (n = 0).                                                        *)
(***************************************************************************)
Frac(n, d) == [n |-> n, d |-> d]
Whole(k) == Frac(k, 1)
IsNaN(x) == x.d = 0 /\ x.n = 0
IsInfinity(x) == x.d = 0 /\ x.n > 0
IsFinite(x) == x.d > 0

\* a / b for integers a, b >= 0
Div(a, b) == IF b = 0 THEN (IF a = 0 THEN Frac(0, 0) ELSE Frac(1, 0)) ELSE Frac(a, b)

\* x > y; every comparison with NaN is false
Greater(x, y) ==
  CASE IsNaN(x) \/ IsNaN(y) -> FALSE
    [] IsInfinity(x)        -> ~IsInfinity(y)
    [] IsInfinity(y)        -> FALSE
    [] OTHER                -> x.n * y.d > y.n * x.d

\* k / x, k * x, (k - x) / 2 for an integer k and a finite fraction x > 0
IntOver(k, x) == Frac(k * x.d, x.n)
IntTimes(k, x) == Frac(k * x.n, x.d)
HalfOfDifference(k, x) == Frac(k * x.d - x.n, 2 * x.d)

(***************************************************************************)
(* resizeImage, img.onload: the rectangle the image is drawn into          *)
(***************************************************************************)
\* Letterbox with the two branches taken the wrong way round
LetterboxFlipped(imgWidth, imgHeight, width, height) ==
  LET imageAspectRatio == Div(imgWidth, imgHeight)
      targetAspectRatio == Div(width, height)
  IN IF Greater(targetAspectRatio, imageAspectRatio)
       THEN LET drawHeight == IntOver(width, imageAspectRatio)
            IN [drawWidth |-> Whole(width), drawHeight |-> drawHeight,
                offsetX |-> Whole(0), offsetY |-> HalfOfDifference(height, drawHeight)]
       ELSE LET drawWidth == IntTimes(height, imageAspectRatio)
            IN [drawWidth |-> drawWidth, drawHeight |-> Whole(height),
                offsetX |-> HalfOfDifference(width, drawWidth), offsetY |-> Whole(0)]

Letterbox(imgWidth, imgHeight, width, height) ==
  LET imageAspectRatio == Div(imgWidth, imgHeight)
      targetAspectRatio == Div(width, height)
  IN IF Greater(imageAspectRatio, targetAspectRatio)
       THEN LET drawHeight == IntOver(width, imageAspectRatio)
            IN [drawWidth |-> Whole(width), drawHeight |-> drawHeight,
                offsetX |-> Whole(0), offsetY |-> HalfOfDifference(height, drawHeight)]
       ELSE LET drawWidth == IntTimes(height, imageAspectRatio)
            IN [drawWidth |-> drawWidth, drawHeight |-> Whole(height),
                offsetX |-> HalfOfDifference(width, drawWidth), offsetY |-> Whole(0)]

\* canvas.width = width; canvas.height = height; fillRect; drawImage
DrawnCanvas(imgWidth, imgHeight, width, height) ==
  [width |-> width, height |-> height,
   img |-> [w |-> imgWidth, h |-> imgHeight],
   rect |-> Letterbox(imgWidth, imgHeight, width, height)]

\* the hidden canvas before any run has drawn on it
BlankCanvas ==
  [width |-> DefaultCanvasWidth, height |-> DefaultCanvasHeight,
   img |-> [w |-> 0, h |-> 0],
   rect |-> [drawWidth |-> Whole(0), drawHeight |-> Whole(0),
             offsetX |-> Whole(0), offsetY |-> Whole(0)]]

\* canvas.toBlob copies the bitmap when it is called and encodes the copy
\* later: the copy of a canvas of width x height pixels.
Snapshot(width, height) ==
  IF width > 0 /\ height > 0 THEN JpegBlob(width, height) ELSE NullBlob

\* what the toBlob callback can receive for a copy: null when the copy has
\* no pixels, the encoded image or (the encoder failing) null otherwise
BlobOutcomes(snap) == IF snap.kind = "null" THEN {NullBlob} ELSE {snap, NullBlob}

(***************************************************************************)
(* Pipeline runs.  pc is the await (or callback) the invocation is parked  *)
(* at; name, width and height are file.name and the targetWidth and        *)
(* targetHeight its closure holds; snap is the bitmap copy a pending       *)
(* toBlob holds; out is the resizedFile it builds.                         *)
(***************************************************************************)
\* the errors processImage's catch block can receive
Errors == {"TypeError", "Canvas is empty", "compression failed", "reader error",
           "image error"}
Failed(o) == o \in Errors

IdleRun == [pc |-> "idle", name |-> "", width |-> 0, height |-> 0,
            snap |-> NullBlob, out |-> Empty]

InFlight(r) == runs[r].pc # "idle"
InResize(r) == runs[r].pc \in {"resize-read", "resize-decode", "resize-toBlob"}

Init ==
  /\ originalPreview = Empty
  /\ compressedPreview = Empty
  /\ originalSize = NoSize
  /\ compressedSize = NoSize
  /\ targetWidth = InitialWidth
  /\ targetHeight = InitialHeight
  /\ completedCrop = NullCrop
  /\ cover_image = Empty
  /\ canvas = BlankCanvas
  /\ reads = {}
  /\ runs = [r \in Slots |-> IdleRun]
  /\ outcome = "none"
  /\ failedSinceSelect = FALSE
  /\ events = 0
  /\ clicks = 0

\* one more user event
UserEvent ==
  /\ events < MaxEvents
  /\ events' = events + 1

(***************************************************************************)
(* File selection                                                          *)
(***************************************************************************)
\* <Input type='file' onChange>: field.onChange(file); onDrop([file])
InputChange(n) ==
  /\ UserEvent
  /\ failedSinceSelect' = FALSE
  /\ cover_image' = UserFile(n)
  /\ reads' = reads \cup {n}
  /\ UNCHANGED <<originalPreview, compressedPreview, originalSize, compressedSize,
                 targetWidth, targetHeight, completedCrop, canvas, runs, outcome,
                 clicks>>

\* a file dropped on the dropzone: onDrop(acceptedFiles)
Drop(n) ==
  /\ UserEvent
  /\ failedSinceSelect' = FALSE
  /\ reads' = reads \cup {n}
  /\ UNCHANGED <<originalPreview, compressedPreview, originalSize, compressedSize,
                 targetWidth, targetHeight, completedCrop, cover_image, canvas, runs,
                 outcome, clicks>>

\* onDrop, reader.onload
DropLoaded(n) ==
  /\ n \in reads
  /\ reads' = reads \ {n}
  /\ originalPreview' = DataURL(UserFile(n))
  /\ originalSize' = FileSize(UserFile(n))
  /\ cover_image' = UserFile(n)
  /\ failedSinceSelect' = FALSE
  /\ UNCHANGED <<compressedPreview, compressedSize, targetWidth, targetHeight,
                 completedCrop, canvas, runs, outcome, events, clicks>>

\* onDrop's reader fails: it has no onerror handler
DropUnread(n) ==
  /\ n \in reads
  /\ reads' = reads \ {n}
  /\ UNCHANGED <<originalPreview, compressedPreview, originalSize, compressedSize,
                 targetWidth, targetHeight, completedCrop, cover_image, canvas, runs,
                 outcome, failedSinceSelect, events, clicks>>

(***************************************************************************)
(* Target dimensions and crop                                              *)
(***************************************************************************)
\* onChange={(e) => setTargetWidth(Number(e.target.value))}
SetTargetWidth(v) ==
  /\ UserEvent
  /\ targetWidth' = v
  /\ UNCHANGED <<originalPreview, compressedPreview, originalSize, compressedSize,
                 targetHeight, completedCrop, cover_image, canvas, reads, runs,
                 outcome, failedSinceSelect, clicks>>

\* onChange={(e) => setTargetHeight(Number(e.target.value))}
SetTargetHeight(v) ==
  /\ UserEvent
  /\ targetHeight' = v
  /\ UNCHANGED <<originalPreview, compressedPreview, originalSize, compressedSize,
                 targetWidth, completedCrop, cover_image, canvas, reads, runs,
                 outcome, failedSinceSelect, clicks>>

\* <ReactCrop onComplete={(c) => setCompletedCrop(c)}>, rendered with the preview
CropComplete(side) ==
  /\ UserEvent
  /\ originalPreview # Empty
  /\ completedCrop' = [unit |-> "px", width |-> side, height |-> side]
  /\ UNCHANGED <<originalPreview, compressedPreview, originalSize, compressedSize,
                 targetWidth, targetHeight, cover_image, canvas, reads, runs,
                 outcome, failedSinceSelect, clicks>>

(***************************************************************************)
(* processImage                                                            *)
(***************************************************************************)
\* the slot a new invocation takes: the first that holds no run in flight
FreeSlot(r) ==
  /\ ~InFlight(r)
  /\ \A q \in Slots : q < r => InFlight(q)

\* a catch block that resets the original preview and size as well
CatchClearsOriginal(r, error) ==
  /\ compressedPreview' = Empty
  /\ compressedSize' = NoSize
  /\ cover_image' = Empty
  /\ originalPreview' = Empty
  /\ originalSize' = NoSize
  /\ runs' = [runs EXCEPT ![r] = IdleRun]
  /\ outcome' = error
  /\ failedSinceSelect' = TRUE
  /\ UNCHANGED <<targetWidth, targetHeight, completedCrop, canvas, reads>>

\* catch (error) { setCompressedPreview(null); setCompressedSize(null);
\*                 form.resetField('cover_image') }
\*                 console.error('Error processing image:', error)
Catch(r, error) ==
  /\ compressedPreview' = Empty
  /\ compressedSize' = NoSize
  /\ cover_image' = Empty
  /\ runs' = [runs EXCEPT ![r] = IdleRun]
  /\ outcome' = error
  /\ failedSinceSelect' = TRUE
  /\ UNCHANGED <<originalPreview, originalSize, targetWidth, targetHeight,
                 completedCrop, canvas, reads>>

\* the guard throwing into the catch block instead of returning
EarlyReturnThrows(r) == Catch(r, "TypeError")

\* if (!completedCrop || !imgRef.current) return;
EarlyReturn(r) ==
  /\ outcome' = "returned"
  /\ UNCHANGED <<failedSinceSelect, originalPreview, compressedPreview, originalSize, compressedSize,
                 targetWidth, targetHeight, completedCrop, cover_image, canvas, reads,
                 runs>>

\* cropImage(imgRef.current, completedCrop, file.name): a canvas of its own,
\* crop.width x crop.height, drawn and handed to toBlob
StartCrop(r, file) ==
  /\ runs' = [runs EXCEPT ![r] =
       [pc |-> "crop", name |-> file.name,
        width |-> targetWidth, height |-> targetHeight,
        snap |-> Snapshot(completedCrop.width, completedCrop.height),
        out |-> Empty]]
  /\ UNCHANGED <<originalPreview, compressedPreview, originalSize, compressedSize,
                 targetWidth, targetHeight, completedCrop, cover_image, canvas, reads,
                 outcome, failedSinceSelect>>

\* the button is rendered with the preview, and imgRef.current with it:
\* onClick={() => processImage(form.getValues('cover_image'))}
Clicked(r) ==
  /\ UserEvent
  /\ originalPreview # Empty
  /\ FreeSlot(r)
  /\ clicks' = clicks + 1

ClickWithoutCrop(r) ==
  /\ Clicked(r)
  /\ completedCrop = NullCrop
  /\ EarlyReturn(r)

\* file?.name: the pipeline starting on an undefined file
ClickWithoutFileStarts(r) ==
  /\ Clicked(r)
  /\ completedCrop # NullCrop
  /\ cover_image = Empty
  /\ StartCrop(r, cover_image)

\* file is undefined: reading file.name throws inside the try block
ClickWithoutFile(r) ==
  /\ Clicked(r)
  /\ completedCrop # NullCrop
  /\ cover_image = Empty
  /\ Catch(r, "TypeError")

ClickApply(r) ==
  /\ Clicked(r)
  /\ completedCrop # NullCrop
  /\ cover_image # Empty
  /\ StartCrop(r, cover_image)

\* the run moves on to its next await
Advance(r, pc) ==
  /\ runs' = [runs EXCEPT ![r].pc = pc, ![r].snap = NullBlob]
  /\ UNCHANGED <<originalPreview, compressedPreview, originalSize, compressedSize,
                 targetWidth, targetHeight, completedCrop, cover_image, canvas, reads,
                 outcome, failedSinceSelect, events, clicks>>

\* cropImage, toBlob callback with a blob: resolve; imageCompression is called
CropEncoded(r) ==
  /\ runs[r].pc = "crop"
  /\ \E blob \in BlobOutcomes(runs[r].snap) : blob.kind # "null"
  /\ Advance(r, "compress")

\* cropImage, toBlob callback with null: reject(new Error('Canvas is empty'))
CropEmpty(r) ==
  /\ runs[r].pc = "crop"
  /\ NullBlob \in BlobOutcomes(runs[r].snap)
  /\ Catch(r, "Canvas is empty")
  /\ UNCHANGED <<events, clicks>>

\* await imageCompression(croppedFile, options) resolves; resizeImage is
\* called and starts its FileReader
Compressed(r) ==
  /\ runs[r].pc = "compress"
  /\ Advance(r, "resize-read")

\* await imageCompression(croppedFile, options) rejects
CompressFailed(r) ==
  /\ runs[r].pc = "compress"
  /\ Catch(r, "compression failed")
  /\ UNCHANGED <<events, clicks>>

\* resizeImage, reader.onload: img.src = e.target.result
ResizeRead(r) ==
  /\ runs[r].pc = "resize-read"
  /\ Advance(r, "resize-decode")

\* resizeImage, reader.onerror = reject
ResizeReadFailed(r) ==
  /\ runs[r].pc = "resize-read"
  /\ Catch(r, "reader error")
  /\ UNCHANGED <<events, clicks>>

\* resizeImage, img.onload: letterbox onto the shared canvas, then toBlob
ImgOnload(r, img) ==
  /\ runs[r].pc = "resize-decode"
  /\ canvas' = DrawnCanvas(img[1], img[2], runs[r].width, runs[r].height)
  /\ runs' = [runs EXCEPT ![r].pc = "resize-toBlob",
                          ![r].snap = Snapshot(canvas'.width, canvas'.height)]
  /\ UNCHANGED <<originalPreview, compressedPreview, originalSize, compressedSize,
                 targetWidth, targetHeight, completedCrop, cover_image, reads,
                 outcome, failedSinceSelect, events, clicks>>

\* resizeImage, img.onerror = reject
ImgOnerror(r) ==
  /\ runs[r].pc = "resize-decode"
  /\ Catch(r, "image error")
  /\ UNCHANGED <<events, clicks>>

\* resizeImage, toBlob callback: resolve(blob!), whatever blob is; then
\* processImage builds resizedFile, starts the preview reader and sets the
\* form value
Publish(r, blob) ==
  LET resizedFile == NewFile(blob, runs[r].name)
  IN /\ cover_image' = resizedFile
     /\ runs' = [runs EXCEPT ![r].pc = "preview-read", ![r].snap = NullBlob,
                             ![r].out = resizedFile]
     /\ UNCHANGED <<originalPreview, compressedPreview, originalSize, compressedSize,
                    targetWidth, targetHeight, completedCrop, canvas, reads,
                    outcome, failedSinceSelect, events, clicks>>

\* toBlob encoding the shared canvas as it is when the callback runs
ResizeBlobsLate(snap) == BlobOutcomes(Snapshot(canvas.width, canvas.height))

\* resizeImage: what canvas.toBlob passes to its callback
ResizeBlobs(snap) == BlobOutcomes(snap)

ResizeBlob(r) ==
  /\ runs[r].pc = "resize-toBlob"
  /\ \E blob \in ResizeBlobs(runs[r].snap) : Publish(r, blob)

\* processImage, reader.onload: the compressed preview and size
PreviewLoaded(r) ==
  /\ runs[r].pc = "preview-read"
  /\ compressedPreview' = DataURL(runs[r].out)
  /\ compressedSize' = FileSize(runs[r].out)
  /\ runs' = [runs EXCEPT ![r] = IdleRun]
  /\ outcome' = "done"
  /\ UNCHANGED <<failedSinceSelect, originalPreview, originalSize, targetWidth, targetHeight,
                 completedCrop, cover_image, canvas, reads, events, clicks>>

\* processImage's preview reader fails: it has no onerror handler
PreviewUnread(r) ==
  /\ runs[r].pc = "preview-read"
  /\ runs' = [runs EXCEPT ![r] = IdleRun]
  /\ outcome' = "unread"
  /\ UNCHANGED <<failedSinceSelect, originalPreview, compressedPreview, originalSize, compressedSize,
                 targetWidth, targetHeight, completedCrop, cover_image, canvas, reads,
                 events, clicks>>

Next ==
  \/ \E n \in FileNames : InputChange(n)
  \/ \E n \in FileNames : Drop(n)
  \/ \E n \in FileNames : DropLoaded(n)
  \/ \E n \in FileNames : DropUnread(n)
  \/ \E v \in TargetVals : SetTargetWidth(v)
  \/ \E v \in TargetVals : SetTargetHeight(v)
  \/ \E side \in CropVals : CropComplete(side)
  \/ \E r \in Slots : ClickWithoutCrop(r)
  \/ \E r \in Slots : ClickWithoutFile(r)
  \/ \E r \in Slots : ClickApply(r)
  \/ \E r \in Slots : CropEncoded(r)
  \/ \E r \in Slots : CropEmpty(r)
  \/ \E r \in Slots : Compressed(r)
  \/ \E r \in Slots : CompressFailed(r)
  \/ \E r \in Slots : ResizeRead(r)
  \/ \E r \in Slots : ResizeReadFailed(r)
  \/ \E r \in Slots : \E img \in Images : ImgOnload(r, img)
  \/ \E r \in Slots : ImgOnerror(r)
  \/ \E r \in Slots : ResizeBlob(r)
  \/ \E r \in Slots : PreviewLoaded(r)
  \/ \E r \in Slots : PreviewUnread(r)

Spec == Init /\ [][Next]_vars

(***************************************************************************)
(* The letterbox arithmetic taken alone: a run parked at img.onload with   *)
(* any target and any image of sides up to MaxSide.                        *)
(***************************************************************************)
LetterboxInit ==
  /\ originalPreview = DataURL(UserFile("a.png"))
  /\ originalSize = FileSize(UserFile("a.png"))
  /\ compressedPreview = Empty
  /\ compressedSize = NoSize
  /\ targetWidth \in Sides
  /\ targetHeight \in Sides
  /\ completedCrop = [unit |-> "px", width |-> 1, height |-> 1]
  /\ cover_image = UserFile("a.png")
  /\ canvas = BlankCanvas
  /\ reads = {}
  /\ runs = [r \in Slots |->
       IF r = 1
         THEN [pc |-> "resize-decode", name |-> "a.png",
               width |-> targetWidth, height |-> targetHeight,
               snap |-> NullBlob, out |-> Empty]
         ELSE IdleRun]
  /\ outcome = "none"
  /\ failedSinceSelect = FALSE
  /\ events = 5       \* select, width, height, crop, click
  /\ clicks = 1

LetterboxNext == \E img \in Sides \X Sides : ImgOnload(1, img)

LetterboxSpec == LetterboxInit /\ [][LetterboxNext]_vars

(***************************************************************************)
(* Step and state predicates used by the properties                        *)
(***************************************************************************)
\* a step that is a click of 'Apply Crop and Compress'
ClickStep == clicks' # clicks

\* a step in which run r enters processImage's catch block from an await
CaughtFrom(r, pc) == runs[r].pc = pc /\ runs'[r].pc = "idle"

\* exact comparison and arithmetic of fractions with positive denominators
FracEq(x, y) == x.n * y.d = y.n * x.d
FracLeq(x, y) == x.n * y.d <= y.n * x.d
FracAdd(x, y) == Frac(x.n * y.d + y.n * x.d, x.d * y.d)
FracSub(x, y) == Frac(x.n * y.d - y.n * x.d, x.d * y.d)

(***************************************************************************)
(* C1.  After a stage failure the compressed preview, the compressed size  *)
(* and cover_image are all empty, and no later state shows a compressed    *)
(* preview or size without the final artifact: whenever cover_image is     *)
(* empty (as the failure handler leaves it), so are the compressed preview *)
(* and size.                                                               *)
(***************************************************************************)
C1_NoPreviewWithoutArtifact ==
  cover_image = Empty => (compressedPreview = Empty /\ compressedSize = NoSize)

(***************************************************************************)
(* C2.  Access to the shared canvas is serialized: no run draws on it      *)
(* while another run's toBlob callback is still pending, so no two runs    *)
(* await the canvas's toBlob callback at once.                             *)
(***************************************************************************)
C2_CanvasSerialized ==
  \A r, q \in Slots :
    (runs[r].pc = "resize-toBlob" /\ runs[q].pc = "resize-toBlob") => r = q

(***************************************************************************)
(* C3.  As claimed: a click while no completed crop exists ends in a       *)
(* failure (MissingCropError) and changes no preview, size or cover_image. *)
(***************************************************************************)
C3_MissingCropFails ==
  [][(ClickStep /\ completedCrop = NullCrop) =>
       /\ Failed(outcome')
       /\ UNCHANGED <<originalPreview, originalSize, compressedPreview,
                      compressedSize, cover_image>>]_vars

(***************************************************************************)
(* C3, amended.  A click while no completed crop exists returns without    *)
(* any failure (the catch block does not run, no run starts) and changes   *)
(* no preview, size or cover_image.                                        *)
(***************************************************************************)
C3_MissingCropReturns ==
  [][(ClickStep /\ completedCrop = NullCrop) =>
       /\ outcome' = "returned"
       /\ UNCHANGED <<originalPreview, originalSize, compressedPreview,
                      compressedSize, cover_image, runs>>]_vars

C3_Witness ==
  /\ completedCrop = NullCrop
  /\ outcome = "returned"
  /\ cover_image # Empty
  /\ originalPreview # Empty

(***************************************************************************)
(* C4.  The resize stage is never entered with a target width or height    *)
(* that is not positive, so targetAspectRatio is never the result of a     *)
(* division by zero.                                                       *)
(***************************************************************************)
C4_ResizeNeverGivenZero ==
  \A r \in Slots :
    InResize(r) =>
      /\ runs[r].width > 0
      /\ runs[r].height > 0
      /\ IsFinite(Div(runs[r].width, runs[r].height))

(***************************************************************************)
(* C5.  The image a resize-stage invocation with positive width and height *)
(* resolves with has exactly width x height pixels, whatever the image's   *)
(* aspect ratio and whatever other runs do to the shared canvas.           *)
(***************************************************************************)
C5_ResizedDimensions ==
  \A r \in Slots :
    (/\ runs[r].pc = "preview-read"
     /\ runs[r].width > 0
     /\ runs[r].height > 0
     /\ runs[r].out.kind = "jpeg") =>
      (runs[r].out.w = runs[r].width /\ runs[r].out.h = runs[r].height)

\* a run has resolved with its own dimensions while another run, with other
\* dimensions, has redrawn the shared canvas and awaits its toBlob callback
C5_Witness ==
  \E r, q \in Slots :
    /\ runs[r].pc = "preview-read"
    /\ runs[r].out.kind = "jpeg"
    /\ runs[r].out.w = runs[r].width
    /\ runs[r].width > 0
    /\ runs[q].pc = "resize-toBlob"
    /\ runs[q].width # runs[r].width
    /\ canvas.width = runs[q].width

(***************************************************************************)
(* C6.  For positive image and target dimensions: an image relatively      *)
(* wider than the target is drawn at the full target width with            *)
(* offsetX = 0 and the same padding above and below; otherwise it is drawn *)
(* at the full target height with offsetY = 0 and the same padding left    *)
(* and right; either way the drawn rectangle lies inside the canvas.       *)
(***************************************************************************)
C6_LetterboxCentred ==
  LET width == canvas.width
      height == canvas.height
      rect == canvas.rect
      wider == canvas.img.w * height > width * canvas.img.h
  IN (canvas.img.w > 0 /\ canvas.img.h > 0 /\ width > 0 /\ height > 0) =>
       /\ wider =>
            /\ FracEq(rect.drawWidth, Whole(width))
            /\ FracEq(rect.offsetX, Whole(0))
            /\ FracEq(rect.offsetY,
                      FracSub(FracSub(Whole(height), rect.offsetY), rect.drawHeight))
       /\ ~wider =>
            /\ FracEq(rect.drawHeight, Whole(height))
            /\ FracEq(rect.offsetY, Whole(0))
            /\ FracEq(rect.offsetX,
                      FracSub(FracSub(Whole(width), rect.offsetX), rect.drawWidth))
       /\ FracLeq(Whole(0), rect.offsetX)
       /\ FracLeq(Whole(0), rect.offsetY)
       /\ FracLeq(FracAdd(rect.offsetX, rect.drawWidth), Whole(width))
       /\ FracLeq(FracAdd(rect.offsetY, rect.drawHeight), Whole(height))

\* a wider image drawn with padding above and below
C6_Witness ==
  /\ canvas.img.w * canvas.height > canvas.width * canvas.img.h
  /\ canvas.width > 0
  /\ canvas.rect.offsetY.n > 0
  /\ runs[1].pc = "resize-toBlob"

(***************************************************************************)
(* C7.  A step in which the compress stage fails leaves the original       *)
(* preview and size as they are and clears the compressed preview and      *)
(* size; and no step of any run changes the original preview or size       *)
(* (only the completion of a file selection's read does).                  *)
(***************************************************************************)
C7_CompressFailureFrame ==
  [][/\ \A r \in Slots :
          CaughtFrom(r, "compress") =>
            /\ UNCHANGED <<originalPreview, originalSize>>
            /\ compressedPreview' = Empty
            /\ compressedSize' = NoSize
     /\ (originalPreview' # originalPreview \/ originalSize' # originalSize) =>
          (reads' # reads /\ runs' = runs)]_vars

\* the compress stage of a run has failed after an earlier run drew its
\* result, and the original preview is still shown
C7_Witness ==
  /\ outcome = "compression failed"
  /\ originalPreview # Empty
  /\ originalSize # NoSize
  /\ compressedPreview = Empty
  /\ canvas # BlankCanvas

(***************************************************************************)
(* C8.  The resize stage never resolves with a missing blob, so the final  *)
(* artifact is never a file built from one.                                *)
(***************************************************************************)
C8_NoArtifactFromNullBlob ==
  /\ cover_image.kind # "nulltext"
  /\ \A r \in Slots : runs[r].out.kind # "nulltext"

(***************************************************************************)
(* C9.  Every run that has started and whose asynchronous steps have all   *)
(* signalled has completed (preview, size and artifact published) or has   *)
(* failed (the catch block ran).                                           *)
(***************************************************************************)
C9_EndedRunsCompletedOrFailed ==
  outcome \in {"none", "returned", "done"} \cup Errors

(***************************************************************************)
(* C10.  As claimed: once a run has failed, every click made before a new  *)
(* file is selected (or a selected file finishes loading) ends in the      *)
(* catch block, starts no run and leaves the compressed preview and size   *)
(* empty.                                                                  *)
(***************************************************************************)
C10_ClicksFailUntilNewFile ==
  [][(ClickStep /\ failedSinceSelect) =>
       /\ Failed(outcome')
       /\ runs' = runs
       /\ compressedPreview' = Empty
       /\ compressedSize' = NoSize]_vars

(***************************************************************************)
(* C10, amended.  The catch block resets cover_image to empty; a click     *)
(* made while cover_image is empty (and a completed crop exists) ends in   *)
(* the catch block, starts no run and leaves the compressed preview and    *)
(* size empty; and cover_image leaves empty only by a file selection or by *)
(* a run already in flight publishing its artifact.                        *)
(***************************************************************************)
C10_ClicksFailWhileCoverEmpty ==
  [][/\ (\E r \in Slots :
           \E pc \in {"crop", "compress", "resize-read", "resize-decode"} :
             CaughtFrom(r, pc)) => cover_image' = Empty
     /\ (ClickStep /\ completedCrop # NullCrop /\ cover_image = Empty) =>
          /\ Failed(outcome')
          /\ runs' = runs
          /\ cover_image' = Empty
          /\ compressedPreview' = Empty
          /\ compressedSize' = NoSize
     /\ (cover_image = Empty /\ cover_image' # Empty) =>
          \/ cover_image'.kind = "original"
          \/ \E r \in Slots : runs[r].pc = "resize-toBlob" /\ cover_image' = runs'[r].out
    ]_vars

\* a click on an empty cover_image has just ended in the catch block
C10_Witness ==
  /\ outcome = "TypeError"
  /\ cover_image = Empty
  /\ compressedPreview = Empty
  /\ failedSinceSelect
  /\ clicks >= 2

====
